---- MODULE Spec2Model ----
(***************************************************************************)
(* A model of match_model/balancing/load_zones.py and                      *)
(* match_model/financials.py: the dynamic component lists, the power       *)
(* balance constraint and the system cost objective that are built from    *)
(* them, and the time-value-of-money functions.                            *)
(*                                                                         *)
(* Numbers are exact rationals [n |-> numerator, d |-> denominator] in     *)
(* lowest terms with d > 0.  A record with d = 0 stands for the            *)
(* ZeroDivisionError Python raises on a division by zero.  Model           *)
(* expressions (what Pyomo builds from a rule) are linear expressions:     *)
(* functions from terms <<component, index>> to a rational coefficient.    *)
(***************************************************************************)
EXTENDS Integers, Sequences, FiniteSets, TLC

\* ------------------------------------------------------------------ bounds
\* Registrations made by other modules in one build.
MaxRegs == 2
\* Discount rates are 0/10 .. MaxRateTenths/10.
MaxRateTenths == 2
\* Period lengths are 1..MaxYears, years are 0..MaxYears.
MaxYears == 2

\* ------------------------------------------------------- exact arithmetic
Abs(x) == IF x < 0 THEN -x ELSE x

RECURSIVE GCD(_, _)
GCD(a, b) == IF b = 0 THEN a ELSE GCD(b, a % b)

ZeroDivisionError == [n |-> 0, d |-> 0]

IsFault(x) == x.d = 0

Rat(n, d) ==
    LET g == GCD(Abs(n), d)
    IN  [n |-> n \div g, d |-> d \div g]

Int2Rat(i) == [n |-> i, d |-> 1]

RatAdd(x, y) ==
    IF IsFault(x) \/ IsFault(y) THEN ZeroDivisionError
    ELSE LET g == GCD(x.d, y.d)
         IN  Rat(x.n * (y.d \div g) + y.n * (x.d \div g), (x.d \div g) * y.d)

RatNeg(x) == [n |-> -x.n, d |-> x.d]

RatSub(x, y) == RatAdd(x, RatNeg(y))

RatMul(x, y) ==
    IF IsFault(x) \/ IsFault(y) THEN ZeroDivisionError
    ELSE LET g1 == GCD(Abs(x.n), y.d)
             g2 == GCD(Abs(y.n), x.d)
         IN  IF x.n = 0 \/ y.n = 0 THEN Int2Rat(0)
             ELSE [n |-> (x.n \div g1) * (y.n \div g2),
                   d |-> (x.d \div g2) * (y.d \div g1)]

\* 1/x; Python raises ZeroDivisionError when x is zero.
RatInv(x) ==
    IF IsFault(x) \/ x.n = 0 THEN ZeroDivisionError
    ELSE IF x.n < 0 THEN [n |-> -x.d, d |-> -x.n]
    ELSE [n |-> x.d, d |-> x.n]

RatDiv(x, y) == IF IsFault(y) THEN ZeroDivisionError ELSE RatMul(x, RatInv(y))

RECURSIVE RatPowNat(_, _)
RatPowNat(x, k) == IF k = 0 THEN Int2Rat(1) ELSE RatMul(x, RatPowNat(x, k - 1))

\* x ** e for an integer exponent of either sign.
RatPow(x, e) == IF e >= 0 THEN RatPowNat(x, e) ELSE RatInv(RatPowNat(x, -e))

\* ----------------------------------------------- financials.py, functions
uniform_series_to_present_value_nobranch(dr, t) ==
    RatMul(RatDiv(RatSub(Int2Rat(1), RatPow(RatAdd(Int2Rat(1), dr), -t)), dr),
           RatAdd(Int2Rat(1), dr))

uniform_series_to_present_value(dr, t) ==
    IF dr = Int2Rat(0)
    THEN Int2Rat(t)
    ELSE RatMul(RatDiv(RatSub(Int2Rat(1), RatPow(RatAdd(Int2Rat(1), dr), -t)), dr),
                RatAdd(Int2Rat(1), dr))

future_to_present_value(dr, t) == RatPow(RatAdd(Int2Rat(1), dr), -t)

present_to_future_value_simple(ir, t) ==
    RatAdd(Int2Rat(1), RatMul(ir, Int2Rat(t)))

present_to_future_value(ir, t) == RatPow(RatAdd(Int2Rat(1), ir), t)

\* ------------------------------------------- timescales and load zone data
\* The sets and weights the timescales module and the input tables supply.
LOAD_ZONES == <<"Z1", "Z2">>

PERIODS == <<"P1", "P2">>

TIMEPOINTS == <<"T1", "T2", "T3">>

tp_period == [T1 |-> "P1", T2 |-> "P1", T3 |-> "P2"]

TPS_IN_PERIOD == [P1 |-> <<"T1", "T2">>, P2 |-> <<"T3">>]

tp_weight_in_year == [T1 |-> 2, T2 |-> 3, T3 |-> 8760]

\* The weight of a timepoint over its whole period; P1 spans two years of
\* the weights above, P2 one year.
tp_weight == [T1 |-> 4, T2 |-> 6, T3 |-> 8760]

Range(s) == {s[i] : i \in DOMAIN s}

\* mod.ZONE_TIMEPOINTS: the cross product of load zones and timepoints.
ZONE_TIMEPOINTS == Range(LOAD_ZONES) \X Range(TIMEPOINTS)

\* The demands (MW) the input table may hold.
DemandValues == {1, 100}

\* The sets and scalar parameters that have no default value.
MandatoryInputs == {"LOAD_ZONES", "base_financial_year", "dollar_year",
                    "discount_rate"}

Rates == {Rat(k, 10) : k \in 0..MaxRateTenths}

\* The components other modules register.
PowerComponents == {"ZoneTotalCentralDispatch", "TXPowerNet"}

TPCostComponents == {"FuelCostsPerTP", "GenVariableOMCostsInTP"}

PeriodCostComponents == {"TotalGenFixedCosts"}

\* ------------------------------------------------------ linear expressions
\* Python's sum() starts from 0 and adds the terms from left to right.
LZero == <<>>

LTerm(x, coef) == [y \in {x} |-> coef]

LCoef(e, x) == IF x \in DOMAIN e THEN e[x] ELSE Int2Rat(0)

LAdd(e1, e2) ==
    [x \in (DOMAIN e1) \cup (DOMAIN e2) |-> RatAdd(LCoef(e1, x), LCoef(e2, x))]

LScale(e, r) == [x \in DOMAIN e |-> RatMul(e[x], r)]

Front(s) == SubSeq(s, 1, Len(s) - 1)

Last(s) == s[Len(s)]

\* sum(f(x) for x in s), f given as the sequence of its values.
RECURSIVE PySum(_)
PySum(s) == IF s = <<>> THEN LZero ELSE LAdd(PySum(Front(s)), Last(s))

\* ------------------------------------------------------------------- state
VARIABLES
    attrs,                              \* the attributes defined on mod
    called,                             \* the module functions called so far
    raised,                             \* the exception that ended the build
    nregs,                              \* registrations by other modules
    Zone_Power_Injections,
    Zone_Power_Withdrawals,
    Distributed_Power_Withdrawals,
    Cost_Components_Per_TP,
    Cost_Components_Per_Period,
    discount_rate,
    dollar_year,
    base_financial_year,
    period_length_years,
    loaded,                             \* the mandatory inputs that have data
    zone_demand_mw,                     \* (zone, timepoint) -> MW, as loaded
    checked,                            \* the min_data_checks that passed
    zone_total_demand_in_period_mwh,
    bring_annual_costs_to_base_year,
    bring_timepoint_costs_to_base_year,
    constructed,                        \* the components whose rule has run
    Zone_Energy_Balance,
    SystemCostPerPeriod,
    SystemCost,
    Minimize_System_Cost,
    load_balance_headings,
    arg_dr,                             \* arguments of the function calls
    arg_t,
    ret                                 \* function name -> returned value

lists == <<Zone_Power_Injections, Zone_Power_Withdrawals,
           Distributed_Power_Withdrawals, Cost_Components_Per_TP,
           Cost_Components_Per_Period>>

data == <<discount_rate, dollar_year, base_financial_year, period_length_years,
          loaded, zone_demand_mw>>

factors == <<bring_annual_costs_to_base_year, bring_timepoint_costs_to_base_year,
             zone_total_demand_in_period_mwh, checked>>

aggregates == <<Zone_Energy_Balance, SystemCostPerPeriod, SystemCost,
                Minimize_System_Cost>>

calls == <<arg_dr, arg_t, ret>>

vars == <<attrs, called, raised, nregs, lists, data, factors, constructed,
          aggregates, load_balance_headings, calls>>

\* ------------------------------------------------- load_zones.py, the rule
\* components[1:] where components was meant.
SumComponentsSkipFirst(components, z, t) ==
    PySum([i \in 1..(Len(components) - 1) |->
              LTerm(<<components[i + 1], z, t>>, Int2Rat(1))])

\* total = x where total += x was meant: only the last component is left.
SumComponentsLastOnly(components, z, t) ==
    IF components = <<>> THEN LZero
    ELSE LTerm(<<Last(components), z, t>>, Int2Rat(1))

\* sum(getattr(m, component)[z, t] for component in components)
SumComponents(components, z, t) ==
    PySum([i \in DOMAIN components |-> LTerm(<<components[i], z, t>>, Int2Rat(1))])

Zone_Energy_Balance_rule_swapped(Injections, Withdrawals, z, t) ==
    [lhs |-> SumComponents(Withdrawals, z, t),
     rhs |-> SumComponents(Injections, z, t)]

Zone_Energy_Balance_rule(Injections, Withdrawals, z, t) ==
    [lhs |-> SumComponents(Injections, z, t),
     rhs |-> SumComponents(Withdrawals, z, t)]

\* -------------------------------------------------- financials.py, the rules
calc_tp_costs_in_period(Per_TP, t) ==
    PySum([i \in DOMAIN Per_TP |->
              LTerm(<<Per_TP[i], t>>, Int2Rat(tp_weight_in_year[t]))])

calc_annual_costs_in_period(Per_Period, p) ==
    PySum([i \in DOMAIN Per_Period |-> LTerm(<<Per_Period[i], p>>, Int2Rat(1))])

\* for t in m.TIMEPOINTS where m.TPS_IN_PERIOD[p] was meant.
calc_sys_costs_per_period_all_timepoints(Per_TP, Per_Period, bring, p) ==
    LScale(LAdd(calc_annual_costs_in_period(Per_Period, p),
                PySum([i \in DOMAIN TIMEPOINTS |->
                          calc_tp_costs_in_period(Per_TP, TIMEPOINTS[i])])),
           bring[p])

calc_sys_costs_per_period(Per_TP, Per_Period, bring, p) ==
    LScale(LAdd(calc_annual_costs_in_period(Per_Period, p),
                PySum([i \in DOMAIN TPS_IN_PERIOD[p] |->
                          calc_tp_costs_in_period(Per_TP, TPS_IN_PERIOD[p][i])])),
           bring[p])

\* The first period is left out of the sum.
SystemCost_rule_skips_first(CostPerPeriod) ==
    PySum([i \in 1..(Len(PERIODS) - 1) |-> CostPerPeriod[PERIODS[i + 1]]])

SystemCost_rule(CostPerPeriod) ==
    PySum([i \in DOMAIN PERIODS |-> CostPerPeriod[PERIODS[i]]])

Minimize_System_Cost_rule(Cost) == [expr |-> Cost, sense |-> "minimize"]

bring_annual_costs_to_base_year_rule(dr, dy, by, length, p) ==
    RatMul(uniform_series_to_present_value(dr, length[p]),
           future_to_present_value(dr, dy - by))

bring_timepoint_costs_to_base_year_rule(bring, t) ==
    RatMul(bring[tp_period[t]], Int2Rat(tp_weight_in_year[t]))

\* Python's sum() over numbers.
RECURSIVE NumSum(_)
NumSum(s) == IF s = <<>> THEN 0 ELSE NumSum(Front(s)) + Last(s)

\* tp_weight_in_year[t] where tp_weight[t] was meant.
zone_total_demand_in_period_mwh_rule_in_year(demand, weight, tps, z, p) ==
    NumSum([i \in DOMAIN tps[p] |->
               demand[<<z, tps[p][i]>>] * tp_weight_in_year[tps[p][i]]])

\* sum(m.zone_demand_mw[z, t] * m.tp_weight[t] for t in m.TPS_IN_PERIOD[p])
zone_total_demand_in_period_mwh_rule(demand, weight, tps, z, p) ==
    NumSum([i \in DOMAIN tps[p] |->
               demand[<<z, tps[p][i]>>] * weight[tps[p][i]]])

\* ------------------------------------------------------------------- build
Unset == <<>>

NoObjective == [expr |-> Unset, sense |-> "unset"]

BuildInit ==
    /\ attrs = {}
    /\ called = {}
    /\ raised = "none"
    /\ nregs = 0
    /\ Zone_Power_Injections = Unset
    /\ Zone_Power_Withdrawals = Unset
    /\ Distributed_Power_Withdrawals = Unset
    /\ Cost_Components_Per_TP = Unset
    /\ Cost_Components_Per_Period = Unset
    /\ bring_annual_costs_to_base_year = Unset
    /\ bring_timepoint_costs_to_base_year = Unset
    /\ zone_total_demand_in_period_mwh = Unset
    /\ checked = {}
    /\ constructed = {}
    /\ Zone_Energy_Balance = Unset
    /\ SystemCostPerPeriod = Unset
    /\ SystemCost = Unset
    /\ Minimize_System_Cost = NoObjective
    /\ load_balance_headings = Unset

Init ==
    /\ BuildInit
    /\ loaded = MandatoryInputs
    /\ zone_demand_mw = [zt \in ZONE_TIMEPOINTS |-> 100]
    /\ discount_rate \in {Rat(0, 10), Rat(1, 10)}
    /\ dollar_year \in 0..1
    /\ base_financial_year = 0
    /\ period_length_years = [P1 |-> 1, P2 |-> MaxYears]
    /\ arg_dr = Int2Rat(0)
    /\ arg_t = 0
    /\ ret = Unset

Running(f) == raised = "none" /\ f \notin called

\* load_zones.define_dynamic_lists
lz_define_dynamic_lists ==
    /\ Running("load_zones.define_dynamic_lists")
    /\ called' = called \cup {"load_zones.define_dynamic_lists"}
    /\ Zone_Power_Injections' = <<>>
    /\ Zone_Power_Withdrawals' = <<>>
    /\ attrs' = attrs \cup {"Zone_Power_Injections", "Zone_Power_Withdrawals"}
    /\ UNCHANGED <<raised, nregs, Distributed_Power_Withdrawals,
                   Cost_Components_Per_TP, Cost_Components_Per_Period, data,
                   factors, constructed, aggregates, load_balance_headings, calls>>

\* financials.define_dynamic_lists
fin_define_dynamic_lists ==
    /\ Running("financials.define_dynamic_lists")
    /\ called' = called \cup {"financials.define_dynamic_lists"}
    /\ Cost_Components_Per_TP' = <<>>
    /\ Cost_Components_Per_Period' = <<>>
    /\ attrs' = attrs \cup {"Cost_Components_Per_TP", "Cost_Components_Per_Period"}
    /\ UNCHANGED <<raised, nregs, Zone_Power_Injections, Zone_Power_Withdrawals,
                   Distributed_Power_Withdrawals, data, factors, constructed,
                   aggregates, load_balance_headings, calls>>

\* The optional local_td module defines the distributed bus.
local_td_define_dynamic_lists ==
    /\ Running("local_td.define_dynamic_lists")
    /\ called' = called \cup {"local_td.define_dynamic_lists"}
    /\ Distributed_Power_Withdrawals' = <<>>
    /\ attrs' = attrs \cup {"Distributed_Power_Withdrawals"}
    /\ UNCHANGED <<raised, nregs, Zone_Power_Injections, Zone_Power_Withdrawals,
                   Cost_Components_Per_TP, Cost_Components_Per_Period, data,
                   factors, constructed, aggregates, load_balance_headings, calls>>

\* The name is appended twice.
RegisterDemandTwice(withdrawals) ==
    withdrawals \o <<"zone_demand_mw", "zone_demand_mw">>

\* withdrawals.append("zone_demand_mw")
RegisterDemand(withdrawals) == Append(withdrawals, "zone_demand_mw")

\* try: mod.Distributed_Power_Withdrawals.append(...): what the probe raises.
ProbeRaises(a) == IF a \in attrs THEN "none" ELSE "AttributeError"

CaughtKeyError(e) == e = "KeyError"

\* except AttributeError:
Caught(e) == e = "AttributeError"

\* Whether the loaded data give the named set or parameter a value for every
\* index it needs.
HasData(name) ==
    IF name = "zone_demand_mw"
    THEN DOMAIN zone_demand_mw = ZONE_TIMEPOINTS
    ELSE name \in loaded

\* mod.min_data_check(*names): what the check raises.
min_data_check(names) ==
    IF \E name \in names : ~HasData(name) THEN "MissingDataError" ELSE "none"

\* What a rule's read of a scalar parameter raises: Pyomo refuses to give the
\* value of a parameter that has neither data nor a default.
ParamValueRaises(name) == IF HasData(name) THEN "none" ELSE "ValueError"

\* load_zones.define_components; the check of line 72 and the rule of lines
\* 78-85 run on the loaded data.
lz_define_components ==
    /\ Running("load_zones.define_components")
    /\ called' = called \cup {"load_zones.define_components"}
    /\ LET e == ProbeRaises("Distributed_Power_Withdrawals")
           chk == min_data_check({"LOAD_ZONES", "zone_demand_mw"})
       IN  IF e = "none"
           THEN /\ Distributed_Power_Withdrawals' =
                       RegisterDemand(Distributed_Power_Withdrawals)
                /\ raised' = chk
                /\ UNCHANGED Zone_Power_Withdrawals
           ELSE IF ~Caught(e)
           THEN /\ raised' = e
                /\ UNCHANGED <<Distributed_Power_Withdrawals, Zone_Power_Withdrawals>>
           ELSE IF ProbeRaises("Zone_Power_Withdrawals") = "none"
           THEN /\ Zone_Power_Withdrawals' =
                       RegisterDemand(Zone_Power_Withdrawals)
                /\ raised' = chk
                /\ UNCHANGED Distributed_Power_Withdrawals
           ELSE /\ raised' = ProbeRaises("Zone_Power_Withdrawals")
                /\ UNCHANGED <<Distributed_Power_Withdrawals, Zone_Power_Withdrawals>>
    /\ IF raised' = "none"
       THEN /\ checked' = checked \cup {"load_zones.min_data_check"}
            /\ zone_total_demand_in_period_mwh' =
                   [zp \in Range(LOAD_ZONES) \X Range(PERIODS) |->
                       zone_total_demand_in_period_mwh_rule(
                           zone_demand_mw, tp_weight, TPS_IN_PERIOD,
                           zp[1], zp[2])]
       ELSE UNCHANGED <<checked, zone_total_demand_in_period_mwh>>
    /\ attrs' = attrs \cup {"LOAD_ZONES", "ZONE_TIMEPOINTS", "zone_demand_mw"}
                      \cup (IF raised' # "AttributeError"
                            THEN {"zone_total_demand_in_period_mwh"} ELSE {})
    /\ UNCHANGED <<nregs, Zone_Power_Injections, Cost_Components_Per_TP,
                   Cost_Components_Per_Period, data,
                   bring_annual_costs_to_base_year,
                   bring_timepoint_costs_to_base_year, constructed,
                   aggregates, load_balance_headings, calls>>

\* financials.define_components
fin_define_components ==
    /\ Running("financials.define_components")
    /\ called' = called \cup {"financials.define_components"}
    /\ LET chk == min_data_check({"base_financial_year", "discount_rate"})
           annual == [p \in Range(PERIODS) |->
                         bring_annual_costs_to_base_year_rule(
                             discount_rate, dollar_year, base_financial_year,
                             period_length_years, p)]
       IN  IF chk # "none"
           THEN /\ raised' = chk
                /\ UNCHANGED factors
           ELSE /\ checked' = checked \cup {"financials.min_data_check"}
                /\ UNCHANGED zone_total_demand_in_period_mwh
                /\ IF ParamValueRaises("dollar_year") # "none"
                   THEN /\ raised' = ParamValueRaises("dollar_year")
                        /\ UNCHANGED <<bring_annual_costs_to_base_year,
                                       bring_timepoint_costs_to_base_year>>
                   ELSE IF \E p \in Range(PERIODS) : IsFault(annual[p])
                   THEN /\ raised' = "ZeroDivisionError"
                        /\ UNCHANGED <<bring_annual_costs_to_base_year,
                                       bring_timepoint_costs_to_base_year>>
                   ELSE /\ raised' = "none"
                        /\ bring_annual_costs_to_base_year' = annual
                        /\ bring_timepoint_costs_to_base_year' =
                               [t \in Range(TIMEPOINTS) |->
                                   bring_timepoint_costs_to_base_year_rule(
                                       annual, t)]
    /\ attrs' = attrs \cup {"base_financial_year", "dollar_year", "discount_rate"}
                      \cup (IF raised' = "none"
                            THEN {"bring_annual_costs_to_base_year",
                                  "bring_timepoint_costs_to_base_year"}
                            ELSE {})
    /\ UNCHANGED <<nregs, lists, data, constructed, aggregates,
                   load_balance_headings, calls>>

\* load_zones.define_dynamic_components: declares the constraint; line 104
\* reads mod.ZONE_TIMEPOINTS, which define_components sets.
lz_define_dynamic_components ==
    /\ Running("load_zones.define_dynamic_components")
    /\ "ZONE_TIMEPOINTS" \in attrs
    /\ called' = called \cup {"load_zones.define_dynamic_components"}
    /\ attrs' = attrs \cup {"Zone_Energy_Balance"}
    /\ UNCHANGED <<raised, nregs, lists, data, factors, constructed, aggregates,
                   load_balance_headings, calls>>

\* financials.define_dynamic_components: declares the cost expressions and
\* the objective.
fin_define_dynamic_components ==
    /\ Running("financials.define_dynamic_components")
    /\ called' = called \cup {"financials.define_dynamic_components"}
    /\ attrs' = attrs \cup {"SystemCostPerPeriod", "SystemCost",
                            "Minimize_System_Cost"}
    /\ UNCHANGED <<raised, nregs, lists, data, factors, constructed, aggregates,
                   load_balance_headings, calls>>

\* Pyomo constructs Zone_Energy_Balance: the rule runs for every index and
\* reads the two lists as they are then.
Construct_Zone_Energy_Balance ==
    /\ raised = "none"
    /\ "Zone_Energy_Balance" \in attrs \ constructed
    /\ {"Zone_Power_Injections", "Zone_Power_Withdrawals"} \subseteq attrs
    /\ Zone_Energy_Balance' =
           [zt \in ZONE_TIMEPOINTS |->
               Zone_Energy_Balance_rule(Zone_Power_Injections,
                                        Zone_Power_Withdrawals, zt[1], zt[2])]
    /\ constructed' = constructed \cup {"Zone_Energy_Balance"}
    /\ UNCHANGED <<attrs, called, raised, nregs, lists, data, factors,
                   SystemCostPerPeriod, SystemCost, Minimize_System_Cost,
                   load_balance_headings, calls>>

\* Pyomo constructs SystemCostPerPeriod, SystemCost and Minimize_System_Cost,
\* in the order they were declared.
Construct_SystemCost ==
    /\ raised = "none"
    /\ "SystemCostPerPeriod" \in attrs \ constructed
    /\ {"Cost_Components_Per_TP", "Cost_Components_Per_Period",
        "bring_annual_costs_to_base_year"} \subseteq attrs
    /\ SystemCostPerPeriod' =
           [p \in Range(PERIODS) |->
               calc_sys_costs_per_period(Cost_Components_Per_TP,
                                         Cost_Components_Per_Period,
                                         bring_annual_costs_to_base_year, p)]
    /\ SystemCost' = SystemCost_rule(SystemCostPerPeriod')
    /\ Minimize_System_Cost' = Minimize_System_Cost_rule(SystemCost')
    /\ constructed' = constructed \cup {"SystemCostPerPeriod", "SystemCost",
                                        "Minimize_System_Cost"}
    /\ UNCHANGED <<attrs, called, raised, nregs, lists, data, factors,
                   Zone_Energy_Balance, load_balance_headings, calls>>

\* The list named l after c is appended to the list named target.
Appended(l, target, c) ==
    LET current == CASE l = "Zone_Power_Injections" -> Zone_Power_Injections
                     [] l = "Zone_Power_Withdrawals" -> Zone_Power_Withdrawals
                     [] l = "Cost_Components_Per_TP" -> Cost_Components_Per_TP
                     [] l = "Cost_Components_Per_Period" -> Cost_Components_Per_Period
    IN  IF l = target THEN Append(current, c) ELSE current

\* A registry that refuses a registration once an aggregate is built.
AppendToFrozen(l, c) ==
    /\ l \in attrs
    /\ IF constructed = {}
       THEN /\ Zone_Power_Injections' = Appended("Zone_Power_Injections", l, c)
            /\ Zone_Power_Withdrawals' = Appended("Zone_Power_Withdrawals", l, c)
            /\ Cost_Components_Per_TP' = Appended("Cost_Components_Per_TP", l, c)
            /\ Cost_Components_Per_Period' =
                   Appended("Cost_Components_Per_Period", l, c)
            /\ UNCHANGED raised
       ELSE /\ raised' = "RegistrationAfterFreeze"
            /\ UNCHANGED <<Zone_Power_Injections, Zone_Power_Withdrawals,
                           Cost_Components_Per_TP, Cost_Components_Per_Period>>
    /\ UNCHANGED <<Distributed_Power_Withdrawals, aggregates>>

\* A registry that drops a name it already holds.
AppendToUnique(l, c) ==
    /\ l \in attrs
    /\ IF c \in Range(Appended(l, "", c))
       THEN UNCHANGED <<Zone_Power_Injections, Zone_Power_Withdrawals,
                        Cost_Components_Per_TP, Cost_Components_Per_Period>>
       ELSE /\ Zone_Power_Injections' = Appended("Zone_Power_Injections", l, c)
            /\ Zone_Power_Withdrawals' = Appended("Zone_Power_Withdrawals", l, c)
            /\ Cost_Components_Per_TP' = Appended("Cost_Components_Per_TP", l, c)
            /\ Cost_Components_Per_Period' =
                   Appended("Cost_Components_Per_Period", l, c)
    /\ UNCHANGED <<raised, Distributed_Power_Withdrawals, aggregates>>

\* getattr(mod, l).append(c): the lists are plain Python lists.
AppendTo(l, c) ==
    /\ l \in attrs
    /\ Zone_Power_Injections' = Appended("Zone_Power_Injections", l, c)
    /\ Zone_Power_Withdrawals' = Appended("Zone_Power_Withdrawals", l, c)
    /\ Cost_Components_Per_TP' = Appended("Cost_Components_Per_TP", l, c)
    /\ Cost_Components_Per_Period' = Appended("Cost_Components_Per_Period", l, c)
    /\ UNCHANGED <<raised, Distributed_Power_Withdrawals, aggregates>>

\* Another module registers a power component.
RegisterPower ==
    /\ raised = "none"
    /\ nregs < MaxRegs
    /\ \E l \in {"Zone_Power_Injections", "Zone_Power_Withdrawals"} :
           \E c \in PowerComponents : AppendTo(l, c)
    /\ nregs' = nregs + 1
    /\ UNCHANGED <<attrs, called, data, factors, constructed,
                   load_balance_headings, calls>>

\* Another module registers a cost component.
RegisterCost ==
    /\ raised = "none"
    /\ nregs < MaxRegs
    /\ \/ \E c \in TPCostComponents : AppendTo("Cost_Components_Per_TP", c)
       \/ \E c \in PeriodCostComponents : AppendTo("Cost_Components_Per_Period", c)
    /\ nregs' = nregs + 1
    /\ UNCHANGED <<attrs, called, data, factors, constructed,
                   load_balance_headings, calls>>

\* load_zones.post_solve: the headings of load_balance.csv.
load_balance_headings_of(Injections, Withdrawals) ==
    <<"load_zone", "timestamp">> \o (Injections \o Withdrawals)
        \o <<"ZoneTotalExcessGen">>

lz_post_solve ==
    /\ Running("load_zones.post_solve")
    /\ "Zone_Energy_Balance" \in constructed
    /\ called' = called \cup {"load_zones.post_solve"}
    /\ load_balance_headings' =
           load_balance_headings_of(Zone_Power_Injections, Zone_Power_Withdrawals)
    /\ UNCHANGED <<attrs, raised, nregs, lists, data, factors, constructed,
                   aggregates, calls>>

Next ==
    \/ lz_define_dynamic_lists
    \/ fin_define_dynamic_lists
    \/ local_td_define_dynamic_lists
    \/ lz_define_components
    \/ fin_define_components
    \/ lz_define_dynamic_components
    \/ fin_define_dynamic_components
    \/ Construct_Zone_Energy_Balance
    \/ Construct_SystemCost
    \/ RegisterPower
    \/ RegisterCost
    \/ lz_post_solve

Spec == Init /\ [][Next]_vars

\* ------------------------------------------- the functions called directly
\* The inputs are drawn at the start; each call stores what it returns.
FinInit ==
    /\ BuildInit
    /\ loaded = MandatoryInputs
    /\ zone_demand_mw = [zt \in ZONE_TIMEPOINTS |-> 100]
    /\ discount_rate \in Rates
    /\ dollar_year \in 0..MaxYears
    /\ base_financial_year \in 0..1
    /\ period_length_years \in [{"P1", "P2"} -> 1..MaxYears]
    /\ arg_dr \in Rates
    /\ arg_t \in (-MaxYears)..MaxYears
    /\ ret = Unset

Returns(f, v) ==
    /\ f \notin DOMAIN ret
    /\ ret' = [g \in (DOMAIN ret) \cup {f} |-> IF g = f THEN v ELSE ret[g]]
    /\ UNCHANGED <<attrs, called, raised, nregs, lists, data, factors,
                   constructed, aggregates, load_balance_headings, arg_dr, arg_t>>

call_uniform_series_to_present_value ==
    Returns("uniform_series_to_present_value",
            uniform_series_to_present_value(arg_dr, arg_t))

call_future_to_present_value ==
    Returns("future_to_present_value", future_to_present_value(arg_dr, arg_t))

call_present_to_future_value ==
    Returns("present_to_future_value", present_to_future_value(arg_dr, arg_t))

FinNext ==
    \/ call_uniform_series_to_present_value
    \/ call_future_to_present_value
    \/ call_present_to_future_value
    \/ fin_define_components

FinSpec == FinInit /\ [][FinNext]_vars

\* ------------------------------------------------------------------ claims
Count(s, c) == Cardinality({i \in DOMAIN s : s[i] = c})

NoDuplicates(s) == \A c \in Range(s) : Count(s, c) = 1

IsBuilt(c) == c \in constructed

\* The step that constructs component c.
Builds(c) == c \notin constructed /\ c \in constructed'

\* Every component of the list has a term at (z, t) in the sum e.
Covers(e, components, z, t) == \A c \in Range(components) : <<c, z, t>> \in DOMAIN e

\* Every cost component of the two lists has its terms in the cost of period p.
CostCovers(e, Per_TP, Per_Period, p) ==
    /\ \A c \in Range(Per_Period) : <<c, p>> \in DOMAIN e
    /\ \A c \in Range(Per_TP) :
           \A t \in Range(TPS_IN_PERIOD[p]) : <<c, t>> \in DOMAIN e

Registers == nregs' # nregs

Grows(l) == Len(l') = Len(l) + 1 /\ Front(l') = l

RegistryLists == <<Zone_Power_Injections, Zone_Power_Withdrawals,
                   Cost_Components_Per_TP, Cost_Components_Per_Period>>

C3_DemandRegisteredInExactlyOneList ==
    [][("load_zones.define_components" \in called' \ called) =>
           /\ "Distributed_Power_Withdrawals" \in attrs =>
                  /\ Distributed_Power_Withdrawals' =
                         Append(Distributed_Power_Withdrawals, "zone_demand_mw")
                  /\ Zone_Power_Withdrawals' = Zone_Power_Withdrawals
                  /\ raised' = "none"
           /\ ("Distributed_Power_Withdrawals" \notin attrs
                   /\ "Zone_Power_Withdrawals" \in attrs) =>
                  /\ Zone_Power_Withdrawals' =
                         Append(Zone_Power_Withdrawals, "zone_demand_mw")
                  /\ Distributed_Power_Withdrawals' = Distributed_Power_Withdrawals
                  /\ raised' = "none"
           /\ raised' = "none" =>
                  Count(Distributed_Power_Withdrawals', "zone_demand_mw")
                      + Count(Zone_Power_Withdrawals', "zone_demand_mw") = 1]_vars

C3_Witness ==
    /\ "load_zones.define_components" \in called
    /\ raised = "none"
    /\ "Distributed_Power_Withdrawals" \notin attrs
    /\ Count(Zone_Power_Withdrawals, "zone_demand_mw") = 1
    /\ Distributed_Power_Withdrawals = <<>>

\* The sum e holds, for each component of the list, as many terms at (z, t)
\* as the list holds the component, and no other term.
ExactSum(e, components, z, t) ==
    /\ DOMAIN e = {<<c, z, t>> : c \in Range(components)}
    /\ \A c \in Range(components) : e[<<c, z, t>>] = Int2Rat(Count(components, c))

\* C4: when Zone_Energy_Balance is built it holds one equality for each pair
\* of LOAD_ZONES x TIMEPOINTS; its left side is the sum of the components of
\* Zone_Power_Injections at (z, t), its right side the sum of the components
\* of Zone_Power_Withdrawals at (z, t), with no other term on either side.
C4_BalanceIsSumOfRegistered ==
    [][Builds("Zone_Energy_Balance") =>
           /\ DOMAIN Zone_Energy_Balance' = Range(LOAD_ZONES) \X Range(TIMEPOINTS)
           /\ \A z \in Range(LOAD_ZONES) : \A t \in Range(TIMEPOINTS) :
                  /\ ExactSum(Zone_Energy_Balance'[<<z, t>>].lhs,
                              Zone_Power_Injections, z, t)
                  /\ ExactSum(Zone_Energy_Balance'[<<z, t>>].rhs,
                              Zone_Power_Withdrawals, z, t)]_vars

C4_Witness ==
    /\ IsBuilt("Zone_Energy_Balance")
    /\ Zone_Power_Injections = <<"ZoneTotalCentralDispatch">>
    /\ Zone_Power_Withdrawals = <<"zone_demand_mw", "TXPowerNet">>
    /\ DOMAIN Zone_Energy_Balance[<<"Z2", "T3">>].rhs =
           {<<"zone_demand_mw", "Z2", "T3">>, <<"TXPowerNet", "Z2", "T3">>}
    /\ DOMAIN Zone_Energy_Balance[<<"Z2", "T3">>].lhs =
           {<<"ZoneTotalCentralDispatch", "Z2", "T3">>}

\* The cost e of period p holds each per-period component at p and each
\* per-timepoint component at each timepoint of p, once for each time the
\* component is in its list, weighted and discounted, and no other term.
ExactCost(e, Per_TP, Per_Period, bring, p) ==
    /\ DOMAIN e = {<<c, p>> : c \in Range(Per_Period)}
                      \cup (Range(Per_TP) \X {t \in Range(TIMEPOINTS) : tp_period[t] = p})
    /\ \A c \in Range(Per_Period) :
           e[<<c, p>>] = RatMul(Int2Rat(Count(Per_Period, c)), bring[p])
    /\ \A c \in Range(Per_TP) : \A t \in Range(TIMEPOINTS) :
           tp_period[t] = p =>
               e[<<c, t>>] = RatMul(Int2Rat(Count(Per_TP, c) * tp_weight_in_year[t]),
                                    bring[p])

\* C5: when SystemCostPerPeriod is built, SystemCostPerPeriod[p] is, for
\* every period p, the sum of c[p] over Cost_Components_Per_Period plus the
\* sum of c[t] * tp_weight_in_year[t] over Cost_Components_Per_TP and the
\* timepoints t of p, times bring_annual_costs_to_base_year[p]; timepoints of
\* other periods have no term in it.
C5_SystemCostPerPeriodFormula ==
    [][Builds("SystemCostPerPeriod") =>
           /\ DOMAIN SystemCostPerPeriod' = Range(PERIODS)
           /\ \A p \in Range(PERIODS) :
                  ExactCost(SystemCostPerPeriod'[p], Cost_Components_Per_TP,
                            Cost_Components_Per_Period,
                            bring_annual_costs_to_base_year, p)]_vars

C5_Witness ==
    /\ IsBuilt("SystemCostPerPeriod")
    /\ discount_rate # Int2Rat(0)
    /\ dollar_year # base_financial_year
    /\ DOMAIN SystemCostPerPeriod["P1"] =
           {<<"TotalGenFixedCosts", "P1">>, <<"FuelCostsPerTP", "T1">>,
            <<"FuelCostsPerTP", "T2">>}
    /\ DOMAIN SystemCostPerPeriod["P2"] =
           {<<"TotalGenFixedCosts", "P2">>, <<"FuelCostsPerTP", "T3">>}
    /\ SystemCostPerPeriod["P1"][<<"FuelCostsPerTP", "T2">>] # Int2Rat(3)

RECURSIVE CoefOverPeriods(_, _, _)
CoefOverPeriods(CostPerPeriod, P, x) ==
    IF P = {} THEN Int2Rat(0)
    ELSE LET p == CHOOSE q \in P : TRUE
         IN  RatAdd(LCoef(CostPerPeriod[p], x),
                    CoefOverPeriods(CostPerPeriod, P \ {p}, x))

\* C6: once built, SystemCost is the sum of SystemCostPerPeriod[p] over all
\* periods, term by term; the objective Minimize_System_Cost is SystemCost
\* with sense minimize; and SystemCostPerPeriod keeps one entry per period.
C6_SystemCostIsSumOverPeriods ==
    IsBuilt("SystemCost") =>
        /\ DOMAIN SystemCostPerPeriod = Range(PERIODS)
        /\ DOMAIN SystemCost =
               UNION {DOMAIN SystemCostPerPeriod[p] : p \in Range(PERIODS)}
        /\ \A x \in DOMAIN SystemCost :
               SystemCost[x] = CoefOverPeriods(SystemCostPerPeriod, Range(PERIODS), x)
        /\ Minimize_System_Cost.expr = SystemCost
        /\ Minimize_System_Cost.sense = "minimize"
        /\ {"SystemCostPerPeriod", "SystemCost", "Minimize_System_Cost"}
               \subseteq attrs

C6_Witness ==
    /\ IsBuilt("SystemCost")
    /\ Minimize_System_Cost.sense = "minimize"
    /\ <<"GenVariableOMCostsInTP", "T1">> \in DOMAIN SystemCost
    /\ <<"GenVariableOMCostsInTP", "T3">> \in DOMAIN SystemCost
    /\ <<"TotalGenFixedCosts", "P2">> \in DOMAIN SystemCost

\* The orders in which the components of a list could have been registered.
Orders(s) == {[i \in 1..Len(s) |-> s[f[i]]] : f \in Permutations(1..Len(s))}

\* C7: the aggregates do not depend on the order of registration: the built
\* Zone_Energy_Balance and SystemCostPerPeriod are what their rules give for
\* every reordering of the lists.  The order shows only in load_balance.csv,
\* whose component columns follow the lists: for a reordering the headings
\* are the same columns, the component columns in the reordered order.
C7_AggregationIgnoresRegistrationOrder ==
    [][/\ Builds("Zone_Energy_Balance") =>
              \A I \in Orders(Zone_Power_Injections) :
                  \A W \in Orders(Zone_Power_Withdrawals) :
                      \A zt \in ZONE_TIMEPOINTS :
                          Zone_Energy_Balance_rule(I, W, zt[1], zt[2])
                              = Zone_Energy_Balance'[zt]
       /\ Builds("SystemCostPerPeriod") =>
              \A T \in Orders(Cost_Components_Per_TP) :
                  \A P \in Orders(Cost_Components_Per_Period) :
                      \A p \in Range(PERIODS) :
                          calc_sys_costs_per_period(
                              T, P, bring_annual_costs_to_base_year, p)
                              = SystemCostPerPeriod'[p]
       /\ ("load_zones.post_solve" \in called' \ called) =>
              \A I \in Orders(Zone_Power_Injections) :
                  \A W \in Orders(Zone_Power_Withdrawals) :
                      LET h == load_balance_headings_of(I, W)
                      IN  /\ Len(h) = Len(load_balance_headings')
                          /\ \A c \in Range(h) \cup Range(load_balance_headings') :
                                 Count(h, c) = Count(load_balance_headings', c)
                          /\ SubSeq(h, 3, Len(h) - 1) = I \o W]_vars

C7_Witness ==
    /\ IsBuilt("Zone_Energy_Balance")
    /\ "load_zones.post_solve" \in called
    /\ Cardinality(DOMAIN Zone_Energy_Balance[<<"Z1", "T1">>].rhs) = 2
    /\ Len(load_balance_headings) = 6
    /\ load_balance_headings[3] = "ZoneTotalCentralDispatch"

\* C8 (as amended): the code neither adds nor drops an entry on its own:
\* load_zones puts "zone_demand_mw" at most once into a withdrawal list and
\* never into the injections, and the four registry lists hold exactly one
\* entry for each registration by another module besides it.
C8_OneEntryPerRegistration ==
    /\ Count(Zone_Power_Withdrawals, "zone_demand_mw") <= 1
    /\ Count(Distributed_Power_Withdrawals, "zone_demand_mw") <= 1
    /\ Count(Zone_Power_Injections, "zone_demand_mw") = 0
    /\ Len(Zone_Power_Injections) + Len(Zone_Power_Withdrawals)
           + Len(Cost_Components_Per_TP) + Len(Cost_Components_Per_Period)
       = nregs + Count(Zone_Power_Withdrawals, "zone_demand_mw")

\* A component registered twice is in the list twice and is summed twice.
C8_Witness ==
    /\ IsBuilt("Zone_Energy_Balance")
    /\ Count(Zone_Power_Withdrawals, "TXPowerNet") = 2
    /\ LCoef(Zone_Energy_Balance[<<"Z1", "T1">>].rhs, <<"TXPowerNet", "Z1", "T1">>)
           = Int2Rat(2)

\* C8 (as stated): no component name appears twice in a direction list.
C8_NoNameTwiceInADirectionList ==
    /\ NoDuplicates(Zone_Power_Injections)
    /\ NoDuplicates(Zone_Power_Withdrawals)

\* C9: uniform_series_to_present_value(0, n) returns n, and with a discount
\* rate of 0 financials.define_components raises no ZeroDivisionError and
\* sets bring_annual_costs_to_base_year[p] to period_length_years[p].
C9_ZeroDiscountRate ==
    /\ ("uniform_series_to_present_value" \in DOMAIN ret /\ arg_dr = Int2Rat(0)) =>
           ret["uniform_series_to_present_value"] = Int2Rat(arg_t)
    /\ ("financials.define_components" \in called /\ discount_rate = Int2Rat(0)) =>
           /\ raised = "none"
           /\ DOMAIN bring_annual_costs_to_base_year = Range(PERIODS)
           /\ \A p \in Range(PERIODS) :
                  bring_annual_costs_to_base_year[p]
                      = Int2Rat(period_length_years[p])

C9_Witness ==
    /\ "uniform_series_to_present_value" \in DOMAIN ret
    /\ arg_dr = Int2Rat(0)
    /\ arg_t = MaxYears
    /\ "financials.define_components" \in called
    /\ discount_rate = Int2Rat(0)
    /\ dollar_year # base_financial_year
    /\ bring_annual_costs_to_base_year["P2"] = Int2Rat(MaxYears)

\* C10: for a rate r >= 0 and n >= 1 years,
\* future_to_present_value(r, n) * present_to_future_value(r, n) = 1.
C10_FutureAndPresentValueAreInverse ==
    ({"future_to_present_value", "present_to_future_value"} \subseteq DOMAIN ret
         /\ arg_t >= 1) =>
        RatMul(ret["future_to_present_value"], ret["present_to_future_value"])
            = Int2Rat(1)

C10_Witness ==
    /\ {"future_to_present_value", "present_to_future_value"} \subseteq DOMAIN ret
    /\ arg_t = MaxYears
    /\ arg_dr = Rat(MaxRateTenths, 10)
    /\ ret["present_to_future_value"].n > ret["present_to_future_value"].d
    /\ ret["future_to_present_value"].n < ret["future_to_present_value"].d

\* ------------------------------------------- a build on incomplete inputs
\* The input tables may leave out any of the mandatory sets and parameters
\* and any one (zone, timepoint) pair of the demand table.
DataInit ==
    /\ BuildInit
    /\ loaded \in SUBSET MandatoryInputs
    /\ zone_demand_mw \in
           {[zt \in D |-> 100] :
               D \in {ZONE_TIMEPOINTS}
                     \cup {ZONE_TIMEPOINTS \ {zt} : zt \in ZONE_TIMEPOINTS}}
    /\ discount_rate \in Rates
    /\ dollar_year \in 0..1
    /\ base_financial_year = 0
    /\ period_length_years = [P1 |-> 1, P2 |-> MaxYears]
    /\ arg_dr = Int2Rat(0)
    /\ arg_t = 0
    /\ ret = Unset

\* Every module's define_dynamic_lists has been called.
ListsDefined ==
    {"load_zones.define_dynamic_lists", "financials.define_dynamic_lists"}
        \subseteq called

\* Every module's define_components has been called: define_dynamic_components
\* "is called after define_components()".
ComponentsDefined ==
    {"load_zones.define_components", "financials.define_components"}
        \subseteq called

\* The build in the order the framework calls the modules' functions.
DataNext ==
    \/ lz_define_dynamic_lists
    \/ fin_define_dynamic_lists
    \/ ListsDefined /\ lz_define_components
    \/ ListsDefined /\ fin_define_components
    \/ ComponentsDefined /\ lz_define_dynamic_components
    \/ ComponentsDefined /\ fin_define_dynamic_components
    \/ Construct_Zone_Energy_Balance
    \/ Construct_SystemCost
    \/ lz_post_solve

DataSpec == DataInit /\ [][DataNext]_vars

\* --------------------------------------------------------------- claim C11
LoadZoneInputs == {"LOAD_ZONES", "zone_demand_mw"}

FinancialInputs == {"base_financial_year", "dollar_year", "discount_rate"}

Missing(names) == \E name \in names : ~HasData(name)

\* No constraint or objective has been built and no solve has been reported.
NothingBuilt ==
    /\ constructed = {}
    /\ Zone_Energy_Balance = Unset
    /\ SystemCostPerPeriod = Unset
    /\ SystemCost = Unset
    /\ Minimize_System_Cost = NoObjective
    /\ "load_zones.post_solve" \notin called

\* C11: whenever a mandatory input has no value (LOAD_ZONES empty or unset,
\* zone_demand_mw without a value for some (zone, timepoint) pair, or any of
\* base_financial_year, dollar_year, discount_rate unset), the build ends in
\* the missing-data error as soon as the module that declares the input has
\* defined its components, and no constraint or objective is ever built and
\* no solve is reached.
C11_MissingInputAbortsWithMissingDataError ==
    /\ (Missing(LoadZoneInputs) /\ "load_zones.define_components" \in called)
           => raised = "MissingDataError"
    /\ (Missing(FinancialInputs) /\ "financials.define_components" \in called)
           => raised = "MissingDataError"
    /\ Missing(LoadZoneInputs \cup FinancialInputs) => NothingBuilt

\* The same with dollar_year left out of the inputs whose absence gives the
\* missing-data error: this much the two checks do.
C11_CheckedInputsAbort ==
    /\ (Missing(LoadZoneInputs) /\ "load_zones.define_components" \in called)
           => raised = "MissingDataError"
    /\ (Missing(FinancialInputs \ {"dollar_year"})
            /\ "financials.define_components" \in called)
           => raised = "MissingDataError"
    /\ Missing(LoadZoneInputs \cup FinancialInputs) => NothingBuilt

\* Only dollar_year is missing and financials.define_components has run: its
\* check passed and the rule that reads dollar_year raised.
C11_DollarYearUnchecked ==
    /\ ~Missing(LoadZoneInputs \cup (FinancialInputs \ {"dollar_year"}))
    /\ ~HasData("dollar_year")
    /\ "financials.min_data_check" \in checked
    /\ raised = "ValueError"
    /\ NothingBuilt

\* ------------------------------------------------- the derived parameters
\* Complete input tables, with the demands, the discount rate, the years and
\* the period lengths varied.
ParamInit ==
    /\ BuildInit
    /\ loaded = MandatoryInputs
    /\ zone_demand_mw \in [ZONE_TIMEPOINTS -> DemandValues]
    /\ discount_rate \in Rates
    /\ dollar_year \in 0..1
    /\ base_financial_year = 0
    /\ period_length_years \in [{"P1", "P2"} -> 1..MaxYears]
    /\ arg_dr = Int2Rat(0)
    /\ arg_t = 0
    /\ ret = Unset

ParamNext ==
    \/ lz_define_dynamic_lists
    \/ lz_define_components
    \/ fin_define_components

ParamSpec == ParamInit /\ [][ParamNext]_vars

\* --------------------------------------------------------------- claim C12
\* The sum of demand times weight of zone z over a set of timepoints.
RECURSIVE EnergyOver(_, _, _)
EnergyOver(z, T, weight) ==
    IF T = {} THEN 0
    ELSE LET t == CHOOSE x \in T : TRUE
         IN  zone_demand_mw[<<z, t>>] * weight[t]
                 + EnergyOver(z, T \ {t}, weight)

\* C12: for every zone z and period p, zone_total_demand_in_period_mwh[z,p] is
\* the sum over exactly the timepoints t of TPS_IN_PERIOD[p] of
\* zone_demand_mw[z,t] * tp_weight[t] (tp_weight, not tp_weight_in_year), and
\* for every timepoint t, bring_timepoint_costs_to_base_year[t] is
\* bring_annual_costs_to_base_year[tp_period[t]] * tp_weight_in_year[t]; one
\* zone, one 1-year period, one timepoint of weight 8760, demand 100 and
\* discount rate 0 give 876000 and 8760, both on data that hold nothing else
\* and for period P2 here, whose only timepoint T3 has weight 8760.
C12_DerivedParameters ==
    /\ zone_total_demand_in_period_mwh # Unset =>
           \A z \in Range(LOAD_ZONES), p \in Range(PERIODS) :
               zone_total_demand_in_period_mwh[<<z, p>>] =
                   EnergyOver(z, Range(TPS_IN_PERIOD[p]), tp_weight)
    /\ bring_timepoint_costs_to_base_year # Unset =>
           \A t \in Range(TIMEPOINTS) :
               bring_timepoint_costs_to_base_year[t] =
                   RatMul(bring_annual_costs_to_base_year[tp_period[t]],
                          Int2Rat(tp_weight_in_year[t]))
    /\ zone_total_demand_in_period_mwh_rule(
           [zt \in {<<"Z1", "T1">>} |-> 100], [T1 |-> 8760],
           [P1 |-> <<"T1">>], "Z1", "P1") = 876000
    /\ RatMul(bring_annual_costs_to_base_year_rule(
                  Int2Rat(0), 2020, 2020, [P1 |-> 1], "P1"),
              Int2Rat(8760)) = Int2Rat(8760)
    /\ (zone_total_demand_in_period_mwh # Unset
            /\ zone_demand_mw[<<"Z1", "T3">>] = 100) =>
           zone_total_demand_in_period_mwh[<<"Z1", "P2">>] = 876000
    /\ (bring_timepoint_costs_to_base_year # Unset
            /\ discount_rate = Int2Rat(0) /\ period_length_years["P2"] = 1) =>
           bring_timepoint_costs_to_base_year["T3"] = Int2Rat(8760)

\* Both parameters are computed on the data of the example, with unequal
\* demands in the two timepoints of the other period.
C12_Witness ==
    /\ zone_total_demand_in_period_mwh # Unset
    /\ bring_timepoint_costs_to_base_year # Unset
    /\ zone_demand_mw[<<"Z1", "T3">>] = 100
    /\ zone_demand_mw[<<"Z1", "T1">>] # zone_demand_mw[<<"Z1", "T2">>]
    /\ discount_rate = Int2Rat(0)
    /\ dollar_year = base_financial_year
    /\ period_length_years["P2"] = 1
    /\ zone_total_demand_in_period_mwh[<<"Z1", "P2">>] = 876000
    /\ bring_timepoint_costs_to_base_year["T3"] = Int2Rat(8760)

====
